---- MODULE Spec2Model ----
(***************************************************************************)
(* Layered override store, raw aggregator, project flow config and flow    *)
(* config of f4pga/flow_config.py.                                          *)
(*                                                                         *)
(* The raw configuration document (flow_cfg) is a tree of Python dicts.    *)
(* Python lists are objects with identity: a slot holds a reference into   *)
(* `heap`, so that an in-place `+=` or `pop` is seen through every alias   *)
(* of the list, and a dict.update() that copies a binding shares the list. *)
(***************************************************************************)
EXTENDS Integers, Sequences, FiniteSets, TLC

VARIABLES
    flow_cfg,   \* ProjectFlowConfig.flow_cfg, the raw configuration document
    heap,       \* the list objects: reference -> elements
    flow_def,   \* the pipeline template the FlowDefinition was built from
    r_env,      \* the ResolutionEnv object held by FlowDefinition.r_env
    stages,     \* FlowDefinition.stages: stage name -> Stage.value_overrides
    configs,    \* the FlowConfig objects built so far, by platform
    ret,        \* the last call: operation, arguments, result, output
    nops,       \* calls made so far
    untouched   \* the document as the last mutator call (or the load) left
                \* it, kept from the first read made since; Fresh before

vars == <<flow_cfg, heap, flow_def, r_env, stages, configs, ret, nops, untouched>>

-----------------------------------------------------------------------------
(* Universes of the inputs.                                                *)

\* Longest list a slot may hold (Append is not offered beyond it).
MaxLen == 3
\* Longest index list handed to RemoveByIndex.
MaxIdcs == 2
\* Number of calls made on one loaded document.
MaxOps == 2

Names == {"X", "Y"}
Vals == {"a", "b"}
Plats == {"p", "q"}
Stages == {"s"}
Kinds == {"dependencies", "values"}
\* Python's None as an argument (no platform, no stage).
None == "None"
\* A platform name that is never a key of the document.
Ghost == "zz"

-----------------------------------------------------------------------------
(* JSON values: a dict, a list object (by reference), a string, or the     *)
(* None that dict.get() returns for a missing key.                         *)

EmptyMap == <<>>

Dict(f) == [k |-> "dict", d |-> f]
List(ref) == [k |-> "list", r |-> ref]
Str(str) == [k |-> "str", s |-> str]
NoneV == [k |-> "none"]

\* parent[key] = v
SetItem(f, key, v) == [y \in DOMAIN f \cup {key} |-> IF y = key THEN v ELSE f[y]]
\* parent.pop(key)
PopItem(f, key) == [y \in DOMAIN f \ {key} |-> f[y]]

\* node[path[1]][path[2]]... read with dict.get(): None when a key is missing
RECURSIVE At(_, _)
At(node, path) ==
    IF path = <<>> THEN node
    ELSE IF node.k = "dict" /\ Head(path) \in DOMAIN node.d
    THEN At(node.d[Head(path)], Tail(path))
    ELSE NoneV

\* the document with the node at `path` bound to v (the dicts on the way exist,
\* or are created by the loader)
RECURSIVE Put(_, _, _)
Put(node, path, v) ==
    IF path = <<>> THEN v
    ELSE LET key == Head(path)
             child == IF key \in DOMAIN node.d THEN node.d[key] ELSE Dict(EmptyMap)
         IN  Dict(SetItem(node.d, key, Put(child, Tail(path), v)))

\* the document with the key at the end of `path` removed from its dict
RECURSIVE Del(_, _)
Del(node, path) ==
    IF Len(path) = 1 THEN Dict(PopItem(node.d, Head(path)))
    ELSE Dict(SetItem(node.d, Head(path), Del(node.d[Head(path)], Tail(path))))

\* the list objects a value refers to
RECURSIVE RefsOf(_)
RefsOf(node) ==
    IF node.k = "list" THEN {node.r}
    ELSE IF node.k = "dict" THEN UNION {RefsOf(node.d[key]) : key \in DOMAIN node.d}
    ELSE {}

\* the element of a one-element set: The({e(x) : x \in {v}}) is e with x
\* standing for the value of v, worked out once
The(S) == CHOOSE x \in S : TRUE

\* a fresh list object
Alloc(h) == CHOOSE r \in 1..(Cardinality(DOMAIN h) + 1) : r \notin DOMAIN h

\* The identity of a list object is not observable, only which names share
\* it: the objects still referred to are numbered 1..n in the order of their
\* old numbers, and the ones nothing refers to any more are gone.
Rank(live, r) == Cardinality({x \in live : x <= r})

RECURSIVE Renamed(_, _)
Renamed(node, live) ==
    IF node.k = "list" THEN [k |-> "list", r |-> Rank(live, node.r)]
    ELSE IF node.k = "dict"
    THEN [k |-> "dict", d |-> [key \in DOMAIN node.d |-> Renamed(node.d[key], live)]]
    ELSE node

Collect(h, live) ==
    [n \in 1..Cardinality(live) |-> h[CHOOSE r \in live : Rank(live, r) = n]]

-----------------------------------------------------------------------------
(* Override Store.  A function of the source that mutates its arguments is *)
(* an operator from the document and the heap before the call to the       *)
(* outcome: the document and the heap after it, what was returned or       *)
(* raised, and what was printed.                                           *)

Outcome(flow, h, result, printed) ==
    [flow |-> flow, heap |-> h, result |-> result, printed |-> printed]

\* _get_lazy_dict(parent, name), the parent being the dict at ppath
_get_lazy_dict(flow, ppath, name) ==
    IF At(flow, ppath \o <<name>>).k = "none"
    THEN Put(flow, ppath \o <<name>>, Dict(EmptyMap))
    ELSE flow

\* a getter that creates a missing platform as it creates a missing stage
_get_ov_dict_lazy_platform(dname, flow, platform, stage) ==
    IF platform = None
    THEN [exc |-> "", flow |-> _get_lazy_dict(flow, <<>>, dname), path |-> <<dname>>]
    ELSE LET withPlatform == _get_lazy_dict(flow, <<>>, platform)
             withStage == _get_lazy_dict(withPlatform, <<platform>>, stage)
         IN  IF stage # None
             THEN [exc |-> "",
                   flow |-> _get_lazy_dict(withStage, <<platform, stage>>, dname),
                   path |-> <<platform, stage, dname>>]
             ELSE [exc |-> "",
                   flow |-> _get_lazy_dict(withPlatform, <<platform>>, dname),
                   path |-> <<platform, dname>>]

\* _get_ov_dict: the dict is returned as its path in the (lazily extended)
\* document; flow[platform] raises KeyError for a missing platform
_get_ov_dict(dname, flow, platform, stage) ==
    IF platform = None
    THEN [exc |-> "", flow |-> _get_lazy_dict(flow, <<>>, dname), path |-> <<dname>>]
    ELSE IF platform \notin DOMAIN flow.d
    THEN [exc |-> "KeyError", flow |-> flow, path |-> <<>>]
    ELSE IF stage # None
    THEN The({[exc |-> "",
               flow |-> _get_lazy_dict(withStage, <<platform, stage>>, dname),
               path |-> <<platform, stage, dname>>] :
              withStage \in {_get_lazy_dict(flow, <<platform>>, stage)}})
    ELSE [exc |-> "",
          flow |-> _get_lazy_dict(flow, <<platform>>, dname),
          path |-> <<platform, dname>>]

\* an append that binds an unset slot to the first value, not to the list
_add_ov_scalar(dname, flow, h, name, values, platform, stage) ==
    LET g == _get_ov_dict(dname, flow, platform, stage)
        deps == At(g.flow, g.path \o <<name>>)
    IN  IF g.exc # "" THEN Outcome(flow, h, g.exc, "")
        ELSE IF deps.k = "list"
        THEN Outcome(g.flow, [h EXCEPT ![deps.r] = @ \o values], "True", "")
        ELSE IF deps.k = "none"
        THEN Outcome(Put(g.flow, g.path \o <<name>>,
                         IF values = <<>> THEN Str("") ELSE Str(values[1])),
                     h, "True", "")
        ELSE Outcome(g.flow, h, "False", "NotAList")

\* an append that binds the slot to the list whenever it holds no list
_add_ov_overwrite(dname, flow, h, name, values, platform, stage) ==
    LET g == _get_ov_dict(dname, flow, platform, stage)
        deps == At(g.flow, g.path \o <<name>>)
        new == Alloc(h)
    IN  IF g.exc # "" THEN Outcome(flow, h, g.exc, "")
        ELSE IF deps.k = "list"
        THEN Outcome(g.flow, [h EXCEPT ![deps.r] = @ \o values], "True", "")
        ELSE Outcome(Put(g.flow, g.path \o <<name>>, List(new)),
                     SetItem(h, new, values), "True", "")

\* an append that puts the new values in front of the list
_add_ov_prepend(dname, flow, h, name, values, platform, stage) ==
    LET g == _get_ov_dict(dname, flow, platform, stage)
        deps == At(g.flow, g.path \o <<name>>)
    IN  IF g.exc # "" THEN Outcome(flow, h, g.exc, "")
        ELSE IF deps.k = "list"
        THEN Outcome(g.flow, [h EXCEPT ![deps.r] = values \o @], "True", "")
        ELSE IF deps.k = "none"
        THEN LET new == Alloc(h)
             IN  Outcome(Put(g.flow, g.path \o <<name>>, List(new)),
                         SetItem(h, new, values), "True", "")
        ELSE Outcome(g.flow, h, "False", "NotAList")

_add_ov(dname, flow, h, name, values, platform, stage) ==
    The({LET deps == At(g.flow, g.path \o <<name>>)
         IN  IF g.exc # "" THEN Outcome(flow, h, g.exc, "")
             ELSE IF deps.k = "list"
             THEN Outcome(g.flow, [h EXCEPT ![deps.r] = @ \o values], "True", "")
             ELSE IF deps.k = "none"
             THEN LET new == Alloc(h)
                  IN  Outcome(Put(g.flow, g.path \o <<name>>, List(new)),
                              SetItem(h, new, values), "True", "")
             ELSE Outcome(g.flow, h, "False", "NotAList") :
         g \in {_get_ov_dict(dname, flow, platform, stage)}})

\* a filter that hands the surviving elements back last first
FilteredReversed(vallist, vals) ==
    LET kept == SelectSeq(vallist, LAMBDA val : val \notin {vals[i] : i \in DOMAIN vals})
    IN  [i \in 1..Len(kept) |-> kept[Len(kept) + 1 - i]]

\* a filter that drops only the first element that is a member of vals
FilteredFirst(vallist, vals) ==
    LET hits == {i \in DOMAIN vallist : vallist[i] \in {vals[j] : j \in DOMAIN vals}}
        m == CHOOSE i \in hits : \A j \in hits : i <= j
    IN  IF hits = {} THEN vallist
        ELSE [i \in 1..(Len(vallist) - 1) |-> IF i < m THEN vallist[i] ELSE vallist[i + 1]]

\* [val for val in vallist if val not in set(vals)]
Filtered(vallist, vals) ==
    SelectSeq(vallist, LAMBDA val : val \notin {vals[i] : i \in DOMAIN vals})

\* `type(vallist) is None` is never true in Python: the branch that prints
\* the not-set message is dead
TypeIsNone(node) == FALSE

_rm_ov_by_values(dname, flow, h, name, vals, platform, stage) ==
    The({LET vallist == At(g.flow, g.path \o <<name>>)
         IN  IF g.exc # "" THEN Outcome(flow, h, g.exc, "")
             ELSE IF vallist.k = "list"
             THEN LET new == Alloc(h)
                  IN  Outcome(Put(g.flow, g.path \o <<name>>, List(new)),
                              SetItem(h, new, Filtered(h[vallist.r], vals)), "True", "")
             ELSE IF TypeIsNone(vallist)
             THEN Outcome(g.flow, h, "False", "NotSet")
             ELSE Outcome(g.flow, h, "False", "NotAList") :
         g \in {_get_ov_dict(dname, flow, platform, stage)}})

\* the index list left in the order it was given
Unsorted(idcs) == idcs

\* idcs.sort(reverse=True)
RECURSIVE SortReverse(_)
SortReverse(idcs) ==
    IF idcs = <<>> THEN <<>>
    ELSE LET m == CHOOSE i \in DOMAIN idcs : \A j \in DOMAIN idcs : idcs[j] <= idcs[i]
         IN  <<idcs[m]>> \o
             SortReverse([i \in 1..(Len(idcs) - 1) |-> IF i < m THEN idcs[i] ELSE idcs[i + 1]])

\* vallist.pop(idx) for a 0-based idx >= 0
Pop(vallist, idx) ==
    [i \in 1..(Len(vallist) - 1) |-> IF i <= idx THEN vallist[i] ELSE vallist[i + 1]]

\* for idx in idcs: vallist.pop(idx) -- a pop beyond the end raises
\* IndexError and leaves the list as the earlier pops made it
RECURSIVE PopAll(_, _)
PopAll(vallist, idcs) ==
    IF idcs = <<>> THEN [list |-> vallist, exc |-> ""]
    ELSE IF Head(idcs) >= Len(vallist) THEN [list |-> vallist, exc |-> "IndexError"]
    ELSE PopAll(Pop(vallist, Head(idcs)), Tail(idcs))

_rm_ov_by_idx(dname, flow, h, name, idcs0, platform, stage) ==
    The({LET vallist == At(g.flow, g.path \o <<name>>)
         IN  IF Len(idcs) = 0 THEN Outcome(flow, h, "False", "EmptyIndexList")
             ELSE IF g.exc # "" THEN Outcome(flow, h, g.exc, "")
             ELSE IF vallist.k = "list"
             THEN IF idcs[1] >= Len(h[vallist.r]) \/ idcs[Len(idcs)] < 0
                  THEN Outcome(g.flow, h, "False", "IndexOutOfRange")
                  ELSE LET popped == PopAll(h[vallist.r], idcs)
                       IN  Outcome(g.flow, [h EXCEPT ![vallist.r] = popped.list],
                                   IF popped.exc # "" THEN popped.exc ELSE "True", "")
             ELSE IF vallist.k = "none"
             THEN Outcome(g.flow, h, "False", "NotSet")
             ELSE Outcome(g.flow, h, "False", "NotAList") :
         idcs \in {SortReverse(idcs0)},
         g \in {_get_ov_dict(dname, flow, platform, stage)}})

\* an unset that empties the whole dependency map
unset_dependency_clear(flow, h, name, platform, stage) ==
    LET g == _get_ov_dict("dependencies", flow, platform, stage)
    IN  IF g.exc # "" THEN Outcome(flow, h, g.exc, "")
        ELSE IF At(g.flow, g.path \o <<name>>).k = "none"
        THEN Outcome(g.flow, h, "False", "NotSet")
        ELSE Outcome(Put(g.flow, g.path, Dict(EmptyMap)), h, "True", "")

unset_dependency(flow, h, name, platform, stage) ==
    The({IF g.exc # "" THEN Outcome(flow, h, g.exc, "")
         ELSE IF At(g.flow, g.path \o <<name>>).k = "none"
         THEN Outcome(g.flow, h, "False", "NotSet")
         ELSE Outcome(Del(g.flow, g.path \o <<name>>), h, "True", "") :
         g \in {_get_ov_dict("dependencies", flow, platform, stage)}})

-----------------------------------------------------------------------------
(* Raw Aggregator.                                                         *)

\* a merge in which the binding already present wins
UpdateKeepsOld(vals, other) ==
    [y \in DOMAIN vals \cup DOMAIN other |-> IF y \in DOMAIN vals THEN vals[y] ELSE other[y]]

\* vals.update(other)
Update(vals, other) ==
    [y \in DOMAIN vals \cup DOMAIN other |-> IF y \in DOMAIN other THEN other[y] ELSE vals[y]]

\* _get_ovs_raw: `vals` is the document's own global dict when there is one
\* (flow_cfg.get(dict_name) returns the object, not a copy), so each
\* vals.update() writes into the document; only a missing global dict is
\* replaced by a fresh {} that the document does not hold.
_get_ovs_raw(dict_name, flow, platform, stage) ==
    LET glob == At(flow, <<dict_name>>)
        vals0 == IF glob.k = "none" THEN EmptyMap ELSE glob.d
        Written(f, vals) == IF glob.k = "none" THEN f ELSE Put(f, <<dict_name>>, Dict(vals))
    IN  IF platform = None THEN [flow |-> flow, exc |-> "", val |-> vals0]
        ELSE IF platform \notin DOMAIN flow.d
        THEN [flow |-> flow, exc |-> "KeyError", val |-> EmptyMap]
        ELSE LET platform_vals == At(flow, <<platform, dict_name>>)
                 vals1 == IF platform_vals.k # "none"
                          THEN Update(vals0, platform_vals.d) ELSE vals0
             IN  IF stage = None
                 THEN [flow |-> Written(flow, vals1), exc |-> "", val |-> vals1]
                 ELSE IF stage \notin DOMAIN flow.d[platform].d
                 THEN [flow |-> Written(flow, vals1), exc |-> "KeyError", val |-> EmptyMap]
                 ELSE LET stage_deps == At(flow, <<platform, stage, dict_name>>)
                          vals2 == IF stage_deps.k # "none"
                                   THEN Update(vals1, stage_deps.d) ELSE vals1
                      IN  [flow |-> Written(flow, vals2), exc |-> "", val |-> vals2]

-----------------------------------------------------------------------------
(* Project Flow Config.                                                    *)

\* a keyword test that forgets default_target
_is_kword_short(w) ==
    (w = "dependencies") \/ (w = "values") \/ (w = "default_platform")

_is_kword(w) ==
    (w = "dependencies") \/ (w = "values") \/
    (w = "default_platform") \/ (w = "default_target")

\* ProjectFlowConfig.platforms
platforms(flow) == {platform \in DOMAIN flow.d : ~_is_kword(platform)}

\* Python truthiness of what dict.get() returned: None, an empty dict, an
\* empty list and an empty string are false
Truthy(node, h) ==
    CASE node.k = "none" -> FALSE
      [] node.k = "dict" -> DOMAIN node.d # {}
      [] node.k = "list" -> h[node.r] # <<>>
      [] OTHER -> node.s # ""

\* ProjectFlowConfig.add_platform
add_platform(flow, h, device) ==
    IF Truthy(At(flow, <<device>>), h)
    THEN Outcome(flow, h, "False", "AlreadyExists")
    ELSE Outcome(Put(flow, <<device>>, Dict(EmptyMap)), h, "True", "")

\* ProjectFlowConfig.set_default_platform
set_default_platform(flow, h, device) ==
    Outcome(Put(flow, <<"default_platform">>, Str(device)), h, "True", "")

\* ProjectFlowConfig.set_default_target
set_default_target(flow, h, platform, target) ==
    IF platform \notin DOMAIN flow.d THEN Outcome(flow, h, "KeyError", "")
    ELSE Outcome(Put(flow, <<platform, "default_target">>, Str(target)), h, "True", "")

\* ProjectFlowConfig.get_stage_value_overrides (the platform exists)
get_stage_value_overrides(flow, platform, stage) ==
    LET stage_vals_ovds == At(flow, <<platform, stage, "values">>)
    IN  IF stage_vals_ovds.k = "none" THEN EmptyMap ELSE stage_vals_ovds.d

-----------------------------------------------------------------------------
(* Flow Definition and Flow Config.  The ResolutionEnv and Stage classes   *)
(* are collaborators (f4pga.common, f4pga.stage): an environment is a      *)
(* mapping from names to resolved values, and the values of this model     *)
(* hold no symbolic reference, so resolving leaves them as they are.       *)

\* what a slot holds, by value
Value(node, h) ==
    CASE node.k = "list" -> [k |-> "list", v |-> h[node.r]]
      [] node.k = "str" -> [k |-> "str", s |-> node.s]
      [] OTHER -> [k |-> node.k]

Values(mapping, h) == [n \in DOMAIN mapping |-> Value(mapping[n], h)]

\* ResolutionEnv.add_values: later values override earlier ones for the
\* same name, other names are kept
add_values(env, values, h) == Update(env, Values(values, h))

\* copy(r_env): a new environment with the same bindings
copy_env(env) == env

\* deep(lambda p: str(Path(p).resolve())): every string of a resolved
\* dependency becomes a path under the working directory
AbsPath(val) ==
    CASE val.k = "list" -> [k |-> "list", v |-> [i \in DOMAIN val.v |-> <<"cwd", val.v[i]>>]]
      [] val.k = "str" -> [k |-> "str", s |-> <<"cwd", val.s>>]
      [] OTHER -> val

\* FlowDefinition.__init__(flow_def, ResolutionEnv({}))
FlowDefinition_r_env(def) == add_values(EmptyMap, def.values, EmptyMap)
FlowDefinition_stages(def) == [stage_name \in DOMAIN def.stage_options |-> def.stage_options[stage_name]]

\* FlowConfig.__init__: self.r_env IS platform_def.r_env and self.stages IS
\* platform_def.stages (no copy), so what is added to them is added to the
\* definition's own objects
FlowConfig_init(flow, h, env, stgs, platform) ==
    LET vraw == _get_ovs_raw("values", flow, platform, None)
        env1 == add_values(env, vraw.val, h)
        draw == _get_ovs_raw("dependencies", vraw.flow, platform, None)
    IN  IF vraw.exc # ""
        THEN [flow |-> flow, r_env |-> env, stages |-> stgs, exc |-> vraw.exc,
              dependencies_explicit |-> EmptyMap]
        ELSE [flow |-> draw.flow,
              r_env |-> env1,
              stages |-> [stage_name \in DOMAIN stgs |->
                            Update(stgs[stage_name],
                                   get_stage_value_overrides(draw.flow, platform, stage_name))],
              exc |-> "",
              dependencies_explicit |->
                  [n \in DOMAIN draw.val |-> AbsPath(Value(draw.val[n], h))]]

\* FlowConfig.get_r_env(stage_name), on the shared environment and stages
get_r_env(env, stgs, h, stage_name) ==
    add_values(copy_env(env), stgs[stage_name], h)

\* FlowDefinition.get_stage_r_env(stage_name)
get_stage_r_env(env, stgs, h, stage_name) ==
    add_values(copy_env(env), stgs[stage_name], h)

-----------------------------------------------------------------------------
(* The calls.                                                              *)

NoVal == [k |-> "none"]

\* where _get_ov_dict puts the slot `name`
SlotPath(dname, platform, stage, name) ==
    IF platform = None THEN <<dname, name>>
    ELSE IF stage # None THEN <<platform, stage, dname, name>>
    ELSE <<platform, dname, name>>

\* what the slot holds, None when it or its scope is missing
Slot(flow, h, dname, platform, stage, name) ==
    Value(At(flow, SlotPath(dname, platform, stage, name)), h)

Call(op, dname, platform, stage, name, values, idcs, before, result, printed, val) ==
    [op |-> op, dname |-> dname, platform |-> platform, stage |-> stage,
     name |-> name, values |-> values, idcs |-> idcs, before |-> before,
     result |-> result, printed |-> printed, val |-> val]

NoCall == Call("", "", None, None, "", <<>>, <<>>, NoVal, "", "", EmptyMap)

RenamedStages(stgs, live) ==
    [st \in DOMAIN stgs |-> [n \in DOMAIN stgs[st] |-> Renamed(stgs[st][n], live)]]

StageRefs(stgs) ==
    UNION {UNION {RefsOf(stgs[st][n]) : n \in DOMAIN stgs[st]} : st \in DOMAIN stgs}

\* no read has been made since the last mutator call
Fresh == [k |-> "none"]

\* the calls that are not mutators of the document
Reads == {"platforms", "get_values_raw", "get_dependencies_raw", "FlowConfig", "get_r_env"}

\* the document the reads made since the last mutator call started from
Snapshot == IF untouched = Fresh THEN [flow |-> flow_cfg, heap |-> heap] ELSE untouched

\* the document and the heap after a call of the project flow config
Applied(o, call) ==
    \E live \in {RefsOf(o.flow) \cup StageRefs(stages)} :
        /\ flow_cfg' = Renamed(o.flow, live)
        /\ heap' = Collect(o.heap, live)
        /\ stages' = RenamedStages(stages, live)
        /\ ret' = call
        /\ untouched' = IF call.op \in Reads THEN Snapshot ELSE Fresh
        /\ UNCHANGED <<flow_def, r_env, configs>>

AppendTo(dname, name, values, platform, stage) ==
    \E o \in {_add_ov(dname, flow_cfg, heap, name, values, platform, stage)} :
        /\ \A r \in DOMAIN o.heap : Len(o.heap[r]) <= MaxLen
        /\ Applied(o, Call("Append", dname, platform, stage, name, values, <<>>,
                           Slot(flow_cfg, heap, dname, platform, stage, name),
                           o.result, o.printed, EmptyMap))

RemoveByValue(dname, name, vals, platform, stage) ==
    \E o \in {_rm_ov_by_values(dname, flow_cfg, heap, name, vals, platform, stage)} :
        Applied(o, Call("RemoveByValue", dname, platform, stage, name, vals, <<>>,
                        Slot(flow_cfg, heap, dname, platform, stage, name),
                        o.result, o.printed, EmptyMap))

RemoveByIndex(dname, name, idcs, platform, stage) ==
    \E o \in {_rm_ov_by_idx(dname, flow_cfg, heap, name, idcs, platform, stage)} :
        Applied(o, Call("RemoveByIndex", dname, platform, stage, name, <<>>, idcs,
                        Slot(flow_cfg, heap, dname, platform, stage, name),
                        o.result, o.printed, EmptyMap))

UnsetDependency(name, platform, stage) ==
    \E o \in {unset_dependency(flow_cfg, heap, name, platform, stage)} :
        Applied(o, Call("unset_dependency", "dependencies", platform, stage, name, <<>>, <<>>,
                        Slot(flow_cfg, heap, "dependencies", platform, stage, name),
                        o.result, o.printed, EmptyMap))

AddPlatform(device) ==
    \E o \in {add_platform(flow_cfg, heap, device)} :
        Applied(o, Call("add_platform", "", device, None, "", <<>>, <<>>, NoVal,
                        o.result, o.printed, EmptyMap))

SetDefaultPlatform(device) ==
    \E o \in {set_default_platform(flow_cfg, heap, device)} :
        Applied(o, Call("set_default_platform", "", device, None, "", <<>>, <<>>, NoVal,
                        o.result, o.printed, EmptyMap))

SetDefaultTarget(platform, target) ==
    \E o \in {set_default_target(flow_cfg, heap, platform, target)} :
        Applied(o, Call("set_default_target", "", platform, target, "", <<>>, <<>>, NoVal,
                        o.result, o.printed, EmptyMap))

\* ProjectFlowConfig.platforms(): the names the generator yields
ListPlatforms ==
    \E o \in {Outcome(flow_cfg, heap, "", "")} :
        Applied(o, Call("platforms", "", None, None, "", <<>>, <<>>, NoVal,
                        o.result, o.printed, platforms(flow_cfg)))

\* ProjectFlowConfig.get_values_raw(platform, stage)
GetValuesRaw(platform, stage) ==
    LET a == _get_ovs_raw("values", flow_cfg, platform, stage)
    IN  Applied(Outcome(a.flow, heap, a.exc, ""),
                Call("get_values_raw", "values", platform, stage, "", <<>>, <<>>, NoVal,
                     a.exc, "", Values(a.val, heap)))

\* ProjectFlowConfig.get_dependencies_raw(platform)
GetDependenciesRaw(platform) ==
    LET a == _get_ovs_raw("dependencies", flow_cfg, platform, None)
    IN  Applied(Outcome(a.flow, heap, a.exc, ""),
                Call("get_dependencies_raw", "dependencies", platform, None, "", <<>>, <<>>,
                     NoVal, a.exc, "", Values(a.val, heap)))

\* FlowConfig(project_config, platform_def, platform)
NewFlowConfig(platform) ==
    LET c == FlowConfig_init(flow_cfg, heap, r_env, stages, platform)
        live == RefsOf(c.flow) \cup StageRefs(c.stages)
    IN  /\ flow_cfg' = Renamed(c.flow, live)
        /\ r_env' = c.r_env
        /\ stages' = RenamedStages(c.stages, live)
        /\ configs' = IF c.exc # "" THEN configs
                      ELSE SetItem(configs, platform,
                                   [platform |-> platform,
                                    dependencies_explicit |-> c.dependencies_explicit])
        /\ heap' = Collect(heap, live)
        /\ ret' = Call("FlowConfig", "", platform, None, "", <<>>, <<>>, NoVal, c.exc, "",
                       EmptyMap)
        /\ untouched' = Snapshot
        /\ UNCHANGED flow_def

\* FlowConfig.get_r_env(stage_name) of the FlowConfig built for `platform`
GetREnv(platform, stage_name) ==
    /\ platform \in DOMAIN configs
    /\ ret' = Call("get_r_env", "", platform, stage_name, "", <<>>, <<>>, NoVal, "", "",
                   get_r_env(r_env, stages, heap, stage_name))
    /\ UNCHANGED <<flow_cfg, heap, flow_def, r_env, stages, configs, untouched>>

-----------------------------------------------------------------------------
(* Loaded documents and templates.                                         *)

\* json_load: the document with slots[i] holding contents[i]; every list of
\* a loaded document is an object of its own
RECURSIVE LoadFrom(_, _, _, _)
LoadFrom(flow, i, slots, contents) ==
    IF i > Len(slots) THEN flow
    ELSE LoadFrom(IF contents[i].k = "none" THEN flow
                  ELSE IF contents[i].k = "dict" THEN _get_lazy_dict(flow, SubSeq(slots[i], 1, Len(slots[i]) - 1), slots[i][Len(slots[i])])
                  ELSE Put(flow, slots[i],
                           IF contents[i].k = "list" THEN List(i) ELSE Str(contents[i].s)),
                  i + 1, slots, contents)

LoadedHeap(contents) ==
    [i \in {j \in DOMAIN contents : contents[j].k = "list"} |-> contents[i].v]

ListVal(l) == [k |-> "list", v |-> l]
StrVal(str) == [k |-> "str", s |-> str]
DictVal == [k |-> "dict"]

\* all lists over Vals of the given lengths
ListsOf(lens) == UNION {[1..n -> Vals] : n \in lens}

\* the template of a flow definition: global values and per-stage option values
FlowDef(values, stage_options) == [values |-> values, stage_options |-> stage_options]

NoFlowDef == FlowDef(EmptyMap, [stage_name \in Stages |-> EmptyMap])

\* the state after open_project_flow_cfg and FlowDefinition(flow_def, ResolutionEnv({}))
Loaded(slots, contents, def) ==
    /\ flow_cfg = Renamed(LoadFrom(Dict(EmptyMap), 1, slots, contents),
                          DOMAIN LoadedHeap(contents))
    /\ heap = Collect(LoadedHeap(contents), DOMAIN LoadedHeap(contents))
    /\ flow_def = def
    /\ r_env = FlowDefinition_r_env(def)
    /\ stages = FlowDefinition_stages(def)
    /\ configs = EmptyMap
    /\ ret = NoCall
    /\ nops = 0
    /\ untouched = Fresh

-----------------------------------------------------------------------------
(* The override store under edit: documents of every scope shape, edited   *)
(* by at most MaxOps calls.                                                *)

StoreSlots ==
    << <<"p">>, <<"p", "s">>, <<"dependencies", "X">>, <<"p", "values", "X">>,
       <<"p", "s", "dependencies", "X">>, <<"p", "s", "dependencies", "Y">> >>

\* p may be missing; s may be missing under p; the slots are unset, a list
\* or a string; the stage that sets X sets Y next to it
StoreContents ==
    {<<c1, c2, c3, c4, c5, IF c5 = NoVal THEN NoVal ELSE ListVal(<<"b">>)>> :
        c1 \in {NoVal, DictVal}, c2 \in {NoVal, DictVal},
        c3 \in {NoVal, StrVal("t"), ListVal(<<"a", "b">>)},
        c4 \in {NoVal, StrVal("t"), ListVal(<<"a", "b">>)},
        c5 \in {NoVal, ListVal(<<>>)}}

InitStore ==
    \E c \in StoreContents :
        /\ c[1] = NoVal => c[2] = NoVal /\ c[4] = NoVal
        /\ c[2] = NoVal <=> c[5] = NoVal
        /\ Loaded(StoreSlots, c, NoFlowDef)

StorePlatforms == {None, "p", Ghost}
StoreStages == {None, "s"}
StoreValues == {<<"a">>}
StoreIdcs == {<<>>, <<0>>, <<2>>}
Devices == {"p", "q", "dependencies", "values", "default_platform", "default_target"}

\* one more call on the loaded document
Tick == nops < MaxOps /\ nops' = nops + 1

NextStore ==
    \/ \E dname \in Kinds, platform \in StorePlatforms, stage \in StoreStages, values \in StoreValues :
          Tick /\ AppendTo(dname, "X", values, platform, stage)
    \/ \E dname \in Kinds, platform \in StorePlatforms, stage \in StoreStages, vals \in StoreValues :
          Tick /\ RemoveByValue(dname, "X", vals, platform, stage)
    \/ \E dname \in Kinds, platform \in StorePlatforms, stage \in StoreStages, idcs \in StoreIdcs :
          Tick /\ RemoveByIndex(dname, "X", idcs, platform, stage)
    \/ \E platform \in StorePlatforms, stage \in StoreStages :
          Tick /\ UnsetDependency("X", platform, stage)
    \/ \E device \in Devices : Tick /\ AddPlatform(device)
    \/ Tick /\ SetDefaultPlatform("p")
    \/ \E platform \in {"p", Ghost} : Tick /\ SetDefaultTarget(platform, "s")
    \/ Tick /\ ListPlatforms

SpecStore == InitStore /\ [][NextStore]_vars

-----------------------------------------------------------------------------
(* One slot under edit: every list and every index list within the bounds, *)
(* any number of calls.                                                    *)

\* Longest list handed to Append or RemoveByValue.
MaxArg == 2

ListSlots == << <<"p">>, <<"p", "s", "dependencies", "X">> >>

InitList ==
    \E c2 \in {NoVal, StrVal("t"), ListVal(<<"a", "b">>)} :
        Loaded(ListSlots, <<DictVal, c2>>, NoFlowDef)

IndexLists == UNION {[1..n -> (-1)..MaxLen] : n \in 0..MaxIdcs}

NextList ==
    \/ \E values \in ListsOf(0..MaxArg) :
          AppendTo("dependencies", "X", values, "p", "s") /\ UNCHANGED nops
    \/ \E vals \in ListsOf(0..MaxArg) :
          RemoveByValue("dependencies", "X", vals, "p", "s") /\ UNCHANGED nops
    \/ \E idcs \in IndexLists :
          RemoveByIndex("dependencies", "X", idcs, "p", "s") /\ UNCHANGED nops
    \/ UnsetDependency("X", "p", "s") /\ UNCHANGED nops

SpecList == InitList /\ [][NextList]_vars

-----------------------------------------------------------------------------
(* One slot holding any list within the bounds (or nothing, or a string),  *)
(* and the same RemoveByValue call made on it twice in a row.              *)

InitTwice ==
    \E c2 \in {NoVal, StrVal("t")} \cup {ListVal(l) : l \in ListsOf(0..MaxLen)} :
        Loaded(ListSlots, <<DictVal, c2>>, NoFlowDef)

\* the call made on the loaded document
RemoveOnce(vals) ==
    nops = 0 /\ nops' = 1 /\ RemoveByValue("dependencies", "X", vals, "p", "s")

\* the call that has just been made, made again
RemoveAgain ==
    /\ nops = 1 /\ nops' = 2
    /\ RemoveByValue(ret.dname, ret.name, ret.values, ret.platform, ret.stage)

NextTwice ==
    \/ \E vals \in ListsOf(0..MaxArg) : RemoveOnce(vals)
    \/ RemoveAgain

SpecTwice == InitTwice /\ [][NextTwice]_vars

-----------------------------------------------------------------------------
(* A loaded project read by the aggregator and by flow configs built from  *)
(* one flow definition.                                                    *)

FlowSlots ==
    << <<"p">>, <<"q">>, <<"p", "s">>,
       <<"values", "X">>, <<"p", "values", "X">>, <<"p", "s", "values", "X">>,
       <<"q", "values", "Y">>, <<"dependencies", "X">>, <<"p", "dependencies", "X">> >>

\* p and q exist; s may be missing under p; each slot is unset or a list
FlowContents ==
    {<<DictVal, DictVal, c3, c4, c5, c6, c7, c8, c9>> :
        c3 \in {NoVal, DictVal},
        c4 \in {NoVal, ListVal(<<"a", "b">>)}, c5 \in {NoVal, ListVal(<<"b">>)},
        c6 \in {NoVal, ListVal(<<"a">>)}, c7 \in {NoVal, ListVal(<<"b">>)},
        c8 \in {NoVal, ListVal(<<"a">>)}, c9 \in {NoVal, ListVal(<<"b">>)}}

FlowDefs ==
    {FlowDef(values, [stage_name \in Stages |-> opts]) :
        values \in {EmptyMap, SetItem(EmptyMap, "Y", Str("base"))},
        opts \in {EmptyMap, SetItem(EmptyMap, "X", Str("opt"))}}

InitFlow == \E c \in FlowContents, def \in FlowDefs : Loaded(FlowSlots, c, def)

FlowPlatforms == Plats \cup {Ghost}

NextFlow ==
    \/ \E platform \in FlowPlatforms \cup {None}, stage \in Stages \cup {None} :
          Tick /\ GetValuesRaw(platform, stage)
    \/ \E platform \in FlowPlatforms \cup {None} :
          Tick /\ GetDependenciesRaw(platform)
    \/ \E platform \in FlowPlatforms : Tick /\ NewFlowConfig(platform)
    \/ \E platform \in FlowPlatforms, stage_name \in Stages :
          Tick /\ GetREnv(platform, stage_name)
    \/ \E platform \in {None, "p"} :
          Tick /\ AppendTo("values", "X", <<"a">>, platform, None)

SpecFlow == InitFlow /\ [][NextFlow]_vars

-----------------------------------------------------------------------------
(* Properties.                                                             *)

\* what a returned mapping binds `name` to, None when it does not
Binding(mapping, name) == IF name \in DOMAIN mapping THEN mapping[name] ELSE NoVal

\* the document by value: every list reference replaced by its elements
RECURSIVE DocValue(_, _)
DocValue(node, h) ==
    IF node.k = "dict"
    THEN [k |-> "dict", d |-> [key \in DOMAIN node.d |-> DocValue(node.d[key], h)]]
    ELSE Value(node, h)

\* the value of the most specific of the requested scopes that defines
\* `name`, None when none of them does
MostSpecific(flow, h, dname, platform, stage, name) ==
    LET atStage == IF platform # None /\ stage # None
                   THEN Slot(flow, h, dname, platform, stage, name) ELSE NoVal
        atPlatform == IF platform # None
                      THEN Slot(flow, h, dname, platform, None, name) ELSE NoVal
        atGlobal == Slot(flow, h, dname, None, None, name)
    IN  IF atStage # NoVal THEN atStage
        ELSE IF atPlatform # NoVal THEN atPlatform
        ELSE atGlobal

IsAggregate(call) == call.op \in {"get_values_raw", "get_dependencies_raw"}

\* C1: the mapping an aggregate call returns binds every name to the list of
\* the most specific requested scope (stage, else platform, else global) of
\* the document that defines it, and binds no other name; a list is never
\* the concatenation of the lists of two scopes.
C1_AggregateReplacesPerName ==
    [][(IsAggregate(ret') /\ ret'.result = "") =>
          \A name \in Names :
              Binding(ret'.val, name) =
                  MostSpecific(flow_cfg, heap, ret'.dname, ret'.platform, ret'.stage, name)]_vars

\* C1 witness: the stage and the platform both define X, with different
\* lists, and the aggregate for (p, s) returned the stage's list alone.
C1_Witness ==
    /\ ret.op = "get_values_raw" /\ ret.platform = "p" /\ ret.stage = "s"
    /\ ret.result = ""
    /\ Slot(flow_cfg, heap, "values", "p", None, "X") = ListVal(<<"b">>)
    /\ Slot(flow_cfg, heap, "values", "p", "s", "X") = ListVal(<<"a">>)
    /\ Binding(ret.val, "X") = ListVal(<<"a">>)
    /\ Binding(ret.val, "Y") = NoVal

IsRead(call) == IsAggregate(call) \/ call.op = "FlowConfig"

\* C2: an aggregate call or the construction of a FlowConfig leaves every
\* scope map of the raw document with the names and lists it held before.
C2_ReadLeavesDocument ==
    [][IsRead(ret') => DocValue(flow_cfg', heap') = DocValue(flow_cfg, heap)]_vars

\* C3: constructing a FlowConfig leaves the base environment of the
\* FlowDefinition as it was.
C3_BaseEnvironmentUnchanged ==
    [][ret'.op = "FlowConfig" => r_env' = r_env]_vars

\* the slot the last call addressed, as it is now
SlotNow == Slot(flow_cfg, heap, ret.dname, ret.platform, ret.stage, ret.name)

\* the elements of l whose 0-based position is not in `positions`, in order
Removed(l, positions) ==
    LET kept == {i \in 1..Len(l) : (i - 1) \notin positions}
        Nth(j) == CHOOSE i \in kept : Cardinality({m \in kept : m < i}) = j - 1
    IN  [j \in 1..Cardinality(kept) |-> l[Nth(j)]]

Positions(idcs) == {idcs[i] : i \in DOMAIN idcs}

InRange(idcs, l) == \A i \in Positions(idcs) : 0 <= i /\ i < Len(l)

\* C4: RemoveByIndex with a non-empty index list, repeated indices or not,
\* either succeeds with the list minus the designated positions or fails
\* with the list as it was, and never ends in a fault; with an index out of
\* range it fails with IndexOutOfRange and the list is unchanged.
C4_RemoveByIndexAllOrNothing ==
    (ret.op = "RemoveByIndex" /\ ret.idcs # <<>>) =>
        /\ \/ /\ ret.result = "True"
              /\ ret.before.k = "list"
              /\ SlotNow = ListVal(Removed(ret.before.v, Positions(ret.idcs)))
           \/ /\ ret.result = "False"
              /\ SlotNow = ret.before
        /\ (ret.before.k = "list" /\ ~InRange(ret.idcs, ret.before.v)) =>
              /\ ret.result = "False"
              /\ ret.printed = "IndexOutOfRange"
              /\ SlotNow = ret.before

\* C5: RemoveByIndex with distinct in-range indices, in any order, succeeds
\* and leaves the elements whose positions were not designated, in their
\* original order.
C5_RemoveByIndexRemovesDesignated ==
    (/\ ret.op = "RemoveByIndex" /\ ret.idcs # <<>>
     /\ ret.before.k = "list"
     /\ Cardinality(Positions(ret.idcs)) = Len(ret.idcs)
     /\ InRange(ret.idcs, ret.before.v)) =>
        /\ ret.result = "True"
        /\ SlotNow = ListVal(Removed(ret.before.v, Positions(ret.idcs)))

\* C5 witness: positions 0 and 2, given lowest first, removed from a list of
\* three.
C5_Witness ==
    /\ ret.op = "RemoveByIndex" /\ ret.idcs = <<0, 2>>
    /\ ret.before = ListVal(<<"a", "b", "a">>)
    /\ ret.result = "True"
    /\ SlotNow = ListVal(<<"b">>)

\* the list an Append starts from
Base(before) == IF before.k = "list" THEN before.v ELSE <<>>

SameSlot(c1, c2) ==
    /\ c1.dname = c2.dname /\ c1.platform = c2.platform
    /\ c1.stage = c2.stage /\ c1.name = c2.name

\* C6: an Append on an unset or list-valued slot succeeds and leaves the
\* old list followed by the values; two Appends in a row leave the list the
\* slot started from followed by the values of the first call and then
\* those of the second.
C6_AppendAccumulates ==
    [][(ret'.op = "Append" /\ ret'.before.k \in {"none", "list"}) =>
          LET slot == Slot(flow_cfg', heap', ret'.dname, ret'.platform, ret'.stage, ret'.name)
          IN  /\ ret'.result = "True"
              /\ slot = ListVal(Base(ret'.before) \o ret'.values)
              /\ (/\ ret.op = "Append" /\ ret.before.k \in {"none", "list"}
                  /\ SameSlot(ret, ret')) =>
                     slot = ListVal(Base(ret.before) \o ret.values \o ret'.values)]_vars

\* C6 witness: the second of two Appends, on the list the first one set.
C6_Witness ==
    /\ ret.op = "Append" /\ ret.result = "True"
    /\ ret.before = ListVal(<<"a">>) /\ ret.values = <<"b", "a">>
    /\ SlotNow = ListVal(<<"a", "b", "a">>)

\* C7: RemoveByValue fails with NotSet on a slot that has no value and with
\* NotAList on a slot that holds a non-sequence, and leaves the slot alone.
C7_RemoveByValueErrorKinds ==
    (ret.op = "RemoveByValue" /\ ret.result # "KeyError") =>
        /\ ret.before.k = "none" =>
              ret.result = "False" /\ ret.printed = "NotSet" /\ SlotNow = ret.before
        /\ ret.before.k = "str" =>
              ret.result = "False" /\ ret.printed = "NotAList" /\ SlotNow = ret.before

StoreOps == {"Append", "RemoveByValue", "RemoveByIndex", "unset_dependency"}

\* the call names a platform that is not a key of the root
MissingPlatform(flow, call) ==
    call.platform # None /\ call.platform \notin DOMAIN flow.d

\* the call names a stage that is not a key of its (existing) platform
MissingStage(flow, call) ==
    /\ call.platform # None /\ call.platform \in DOMAIN flow.d
    /\ call.stage # None /\ call.stage \notin DOMAIN flow.d[call.platform].d

\* the platform nodes and the stage nodes of a document
PlatformNodes(flow) == platforms(flow)
StageNodes(flow) ==
    {<<platform, stage>> \in platforms(flow) \X Stages :
        flow.d[platform].k = "dict" /\ stage \in DOMAIN flow.d[platform].d}

EmptyIndexCall(call) == call.op = "RemoveByIndex" /\ call.idcs = <<>>

\* C8 as stated, for the calls that get as far as looking the scope up: a
\* store call addressed to a missing platform, or to a missing stage of a
\* platform, raises ScopeNotFound, and no store call creates a platform node
\* or a stage node.
C8_ScopeExistenceIsPrecondition ==
    [][(ret'.op \in StoreOps /\ ~EmptyIndexCall(ret')) =>
          /\ (MissingPlatform(flow_cfg, ret') \/ MissingStage(flow_cfg, ret')) =>
                ret'.result = "KeyError"
          /\ PlatformNodes(flow_cfg') = PlatformNodes(flow_cfg)
          /\ StageNodes(flow_cfg') = StageNodes(flow_cfg)]_vars

\* C8 amended: platform existence is a precondition, stage existence is not.
\* A store call (RemoveByIndex with a non-empty index list) addressed to a
\* missing platform raises ScopeNotFound and leaves the document as it was;
\* addressed to a missing stage of an existing platform it does not raise
\* and creates the stage node with the override sub-map in it; no store
\* call creates a platform node, and no other stage node is created.
\* RemoveByIndex with an empty index list fails with EmptyIndexList before
\* the scope is looked up.
C8_PlatformExistenceIsPrecondition ==
    [][ret'.op \in StoreOps =>
          /\ PlatformNodes(flow_cfg') = PlatformNodes(flow_cfg)
          /\ EmptyIndexCall(ret') =>
                /\ ret'.result = "False" /\ ret'.printed = "EmptyIndexList"
                /\ flow_cfg' = flow_cfg
          /\ (MissingPlatform(flow_cfg, ret') /\ ~EmptyIndexCall(ret')) =>
                ret'.result = "KeyError" /\ flow_cfg' = flow_cfg
          /\ (MissingStage(flow_cfg, ret') /\ ~EmptyIndexCall(ret')) =>
                /\ ret'.result # "KeyError"
                /\ StageNodes(flow_cfg') =
                       StageNodes(flow_cfg) \cup {<<ret'.platform, ret'.stage>>}
                /\ At(flow_cfg', <<ret'.platform, ret'.stage, ret'.dname>>).k = "dict"
          /\ (~MissingStage(flow_cfg, ret') \/ EmptyIndexCall(ret')) =>
                StageNodes(flow_cfg') = StageNodes(flow_cfg)]_vars

\* C8 witness: an Append addressed to a platform the document does not hold
\* raised, and the platform is still missing.
C8_Witness ==
    /\ ret.op = "Append" /\ ret.platform = Ghost /\ ret.stage = "s"
    /\ ret.result = "KeyError"
    /\ Ghost \notin DOMAIN flow_cfg.d

\* C8: an Append addressed to a missing stage of platform p succeeded and
\* created the stage.
C8_StageCreated ==
    /\ ret.op = "Append" /\ ret.platform = "p" /\ ret.stage = "s"
    /\ ret.before = NoVal /\ ret.result = "True" /\ nops = 1
    /\ At(flow_cfg, <<"p", "s", "values">>).k = "dict"
    /\ At(flow_cfg, <<"p", "s", "dependencies">>).k = "none"

\* C9: add_platform fails with AlreadyExists and changes nothing when the
\* name is a key of the root or a reserved keyword, and otherwise creates an
\* empty platform map and succeeds.
C9_AddPlatformAlreadyExists ==
    [][ret'.op = "add_platform" =>
          IF ret'.platform \in DOMAIN flow_cfg.d \/ _is_kword(ret'.platform)
          THEN /\ ret'.result = "False" /\ ret'.printed = "AlreadyExists"
               /\ flow_cfg' = flow_cfg
          ELSE /\ ret'.result = "True"
               /\ flow_cfg' = Put(flow_cfg, <<ret'.platform>>, Dict(EmptyMap))]_vars

\* C10: right after FlowConfig(project, definition, P), get_r_env(S) binds
\* each name to the stage's override if there is one, else to the project's
\* platform-level aggregate for P, else to the value the flow definition
\* gives it, and binds no other name.
C10_ResolvedEnvPrecedence ==
    [][(ret'.op = "FlowConfig" /\ ret'.result = "") =>
          \A stage_name \in Stages, name \in Names :
              Binding(get_r_env(r_env', stages', heap', stage_name), name) =
                  IF name \in DOMAIN stages'[stage_name]
                  THEN Value(stages'[stage_name][name], heap')
                  ELSE IF MostSpecific(flow_cfg, heap, "values", ret'.platform, None, name) # NoVal
                  THEN MostSpecific(flow_cfg, heap, "values", ret'.platform, None, name)
                  ELSE Binding(Values(flow_def.values, heap), name)]_vars

\* the same precedence for the first FlowConfig built from a definition
C10_FirstFlowConfig ==
    [][(ret'.op = "FlowConfig" /\ ret'.result = "" /\ configs = EmptyMap) =>
          \A stage_name \in Stages, name \in Names :
              Binding(get_r_env(r_env', stages', heap', stage_name), name) =
                  IF name \in DOMAIN stages'[stage_name]
                  THEN Value(stages'[stage_name][name], heap')
                  ELSE IF MostSpecific(flow_cfg, heap, "values", ret'.platform, None, name) # NoVal
                  THEN MostSpecific(flow_cfg, heap, "values", ret'.platform, None, name)
                  ELSE Binding(Values(flow_def.values, heap), name)]_vars

\* C11: RemoveByValue made a second time with the same values on a slot that
\* held a list leaves every scope map of the document with the names and
\* lists the first call left, and returns what the first call returned.
C11_RemoveByValueIdempotent ==
    [][(ret.op = "RemoveByValue" /\ ret.before.k = "list" /\ ret'.op = "RemoveByValue"
        /\ SameSlot(ret, ret') /\ ret'.values = ret.values) =>
          /\ DocValue(flow_cfg', heap') = DocValue(flow_cfg, heap)
          /\ ret'.result = ret.result
          /\ ret'.result = "True"]_vars

\* C11 witness: the second of two removals of "a": the first call left
\* <<"b">>, the second one found <<"b">> and left it.
C11_Witness ==
    /\ nops = 2 /\ ret.op = "RemoveByValue" /\ ret.values = <<"a">>
    /\ ret.before = ListVal(<<"b">>) /\ ret.result = "True"
    /\ SlotNow = ListVal(<<"b">>)

\* C12: an Append, RemoveByValue or RemoveByIndex that returns failure on a
\* scope that exists leaves the whole document as it was: the same scope
\* maps, the same override sub-maps, the same names and lists.
C12_FailedCallAppliesNothing ==
    [][(/\ ret'.op \in {"Append", "RemoveByValue", "RemoveByIndex"}
        /\ ret'.result = "False"
        /\ ~MissingPlatform(flow_cfg, ret') /\ ~MissingStage(flow_cfg, ret')) =>
          DocValue(flow_cfg', heap') = DocValue(flow_cfg, heap)]_vars

\* the reserved keywords of the document
Keywords == {"dependencies", "values", "default_platform", "default_target"}

\* C13: after any calls of the mutators, platforms() yields exactly the keys
\* of the root that are not reserved keywords.
C13_PlatformsExcludeKeywords ==
    ret.op = "platforms" => ret.val = DOMAIN flow_cfg.d \ Keywords

\* C13 witness: default_target was added as if it were a platform, the root
\* also holds the global dependencies map, and platforms() yielded p alone.
C13_Witness ==
    /\ ret.op = "platforms"
    /\ {"default_target", "dependencies", "p"} \subseteq DOMAIN flow_cfg.d
    /\ ret.val = {"p"}

\* the override maps of a scope map: its dependencies and values entries
OverrideMaps(scope) == {scope.d[dname] : dname \in Kinds \cap DOMAIN scope.d}

\* the scope maps of a document: the root, the platforms, their stages
ScopeMaps(flow) ==
    {flow} \cup {flow.d[platform] : platform \in platforms(flow)}
           \cup UNION {{flow.d[platform].d[stage] :
                           stage \in {key \in DOMAIN flow.d[platform].d : ~_is_kword(key)}} :
                       platform \in {pl \in platforms(flow) : flow.d[pl].k = "dict"}}

\* what the slots that are set hold
SetSlots(flow) ==
    UNION {UNION {{m.d[name] : name \in DOMAIN m.d} : m \in OverrideMaps(scope)} :
              scope \in {sc \in ScopeMaps(flow) : sc.k = "dict"}}

AllSlotsHoldLists(flow) == \A slot \in SetSlots(flow) : slot.k = "list"

\* C14: an Append, RemoveByValue, RemoveByIndex or unset_dependency made on
\* a document in which every slot that is set holds a list leaves a
\* document in which every slot that is set holds a list.
C14_SlotsStayLists ==
    [][(ret'.op \in StoreOps /\ AllSlotsHoldLists(flow_cfg)) =>
          AllSlotsHoldLists(flow_cfg')]_vars

\* C14 witness: an Append set the unset values slot X of stage s in a
\* document whose other slots hold lists; the new slot holds a list.
C14_Witness ==
    /\ nops = 1 /\ ret.op = "Append" /\ ret.before = NoVal /\ ret.result = "True"
    /\ ret.platform = "p" /\ ret.stage = "s" /\ ret.dname = "values"
    /\ SlotNow = ListVal(<<"a">>)
    /\ Cardinality(SetSlots(flow_cfg)) >= 2
    /\ AllSlotsHoldLists(flow_cfg)

\* C15: an Append on a slot that holds a value that is not a list returns
\* failure with NotAList and leaves the slot, and the rest of the document,
\* as it was.
C15_AppendOnNonListFails ==
    [][(ret'.op = "Append" /\ ret'.before.k = "str") =>
          /\ ret'.result = "False" /\ ret'.printed = "NotAList"
          /\ Slot(flow_cfg', heap', ret'.dname, ret'.platform, ret'.stage, ret'.name)
                 = ret'.before
          /\ DocValue(flow_cfg', heap') = DocValue(flow_cfg, heap)]_vars

\* C15 witness: an Append of <<"a">> on a slot holding the string "t" failed
\* and the slot still holds "t".
C15_Witness ==
    /\ ret.op = "Append" /\ ret.values = <<"a">>
    /\ ret.before = StrVal("t")
    /\ ret.result = "False" /\ ret.printed = "NotAList"
    /\ SlotNow = StrVal("t")

\* C16: unset_dependency on a dependency that is set returns success and
\* leaves the document as it was but for that one key: the other names of
\* the map, the other scopes and the map itself remain; on a dependency
\* that is not set it fails with NotSet and every slot holds what it held.
C16_UnsetRemovesExactlyOne ==
    [][(ret'.op = "unset_dependency" /\ ret'.result # "KeyError") =>
          IF ret'.before # NoVal
          THEN /\ ret'.result = "True"
               /\ DocValue(flow_cfg', heap') =
                      DocValue(Del(flow_cfg, SlotPath("dependencies", ret'.platform,
                                                      ret'.stage, ret'.name)), heap)
               /\ At(flow_cfg', SlotPath("dependencies", ret'.platform, ret'.stage,
                                         ret'.name)).k = "none"
               /\ At(flow_cfg', _get_ov_dict("dependencies", flow_cfg, ret'.platform,
                                             ret'.stage).path).k = "dict"
          ELSE /\ ret'.result = "False" /\ ret'.printed = "NotSet"
               /\ \A dname \in Kinds, platform \in StorePlatforms,
                     stage \in StoreStages, name \in Names :
                       Slot(flow_cfg', heap', dname, platform, stage, name) =
                           Slot(flow_cfg, heap, dname, platform, stage, name)]_vars

\* C16 witness: X was unset at stage s of platform p; Y, set next to it, is
\* still there.
C16_Witness ==
    /\ ret.op = "unset_dependency" /\ ret.platform = "p" /\ ret.stage = "s"
    /\ ret.name = "X" /\ ret.before = ListVal(<<>>) /\ ret.result = "True"
    /\ SlotNow = NoVal
    /\ Slot(flow_cfg, heap, "dependencies", "p", "s", "Y") = ListVal(<<"b">>)

\* the 0-based positions of l that hold a member of vals
MemberPositions(l, vals) ==
    {i - 1 : i \in {j \in DOMAIN l : \E n \in DOMAIN vals : vals[n] = l[j]}}

\* C17: RemoveByValue on a slot holding a list succeeds and leaves the slot
\* set to the elements of the old list that are not among the values, every
\* occurrence of a listed value gone, the others in their old order and as
\* often as before; the slot holds a list even when nothing is left, and a
\* value the list does not hold makes no difference.
C17_RemoveByValueIsFilter ==
    (ret.op = "RemoveByValue" /\ ret.before.k = "list") =>
        /\ ret.result = "True"
        /\ SlotNow = ListVal(Removed(ret.before.v, MemberPositions(ret.before.v, ret.values)))

\* C17 witness: "b" (and "b" named twice) removed from <<"a", "b", "a">>
\* left <<"a", "a">>.
C17_Witness ==
    /\ ret.op = "RemoveByValue" /\ ret.values = <<"b", "b">>
    /\ ret.before = ListVal(<<"a", "b", "a">>) /\ ret.result = "True"
    /\ SlotNow = ListVal(<<"a", "a">>)

\* C17: removing both values from a list emptied it, and the slot is still
\* set, to the empty list.
C17_EmptiedStaysSet ==
    /\ ret.op = "RemoveByValue" /\ ret.values = <<"a", "b">>
    /\ ret.before = ListVal(<<"a", "b">>) /\ ret.result = "True"
    /\ SlotNow = ListVal(<<>>)

\* C18: after FlowConfig(project, definition, P), the value overrides of
\* every stage S of the definition that P holds bind each name to what the
\* project's aggregate of values for (P, S) binds it to (stage, else
\* platform, else global), and a name the aggregate does not bind to what
\* the stage's overrides bound it to before.
C18_StageOverridesGetAggregate ==
    [][(ret'.op = "FlowConfig" /\ ret'.result = "") =>
          \A stage_name \in {st \in Stages : st \in DOMAIN flow_cfg.d[ret'.platform].d},
             name \in Names :
              Binding(Values(stages'[stage_name], heap'), name) =
                  IF MostSpecific(flow_cfg, heap, "values", ret'.platform, stage_name, name)
                         # NoVal
                  THEN MostSpecific(flow_cfg, heap, "values", ret'.platform, stage_name, name)
                  ELSE Binding(Values(stages[stage_name], heap), name)]_vars

\* C19: an aggregate call for platform B (or for no platform) made right
\* after an aggregate call for another platform A, with no mutator call
\* since the document was loaded or last edited, returns what it returns on
\* the untouched document: each name bound to the list of the most specific
\* requested scope of that document, and no other name.
C19_AggregationHistoryIndependent ==
    [][(/\ IsAggregate(ret) /\ ret.platform \notin {None, Ghost}
        /\ IsAggregate(ret') /\ ret'.platform # ret.platform /\ ret'.dname = ret.dname
        /\ ret'.result = "") =>
          \A name \in Names :
              Binding(ret'.val, name) =
                  MostSpecific(untouched.flow, untouched.heap, ret'.dname,
                               ret'.platform, ret'.stage, name)]_vars

====
